---- MODULE Spec2Model ----
(***************************************************************************)
(* Stream detectors of linkerd2-proxy:                                     *)
(*   - DetectHttp   (linkerd/proxy/http/src/detect.rs): protocol sniffing  *)
(*   - DetectHeader (linkerd/connection-header/src/lib.rs): the optional   *)
(*     connection header, its encoder and its decoder                      *)
(* and the discovery stream of linkerd2-proxy:                             *)
(*   - Resolve::call and resolution                                        *)
(*     (linkerd/proxy/api-resolve/src/resolve.rs)                          *)
(* Bytes are the integers 0..255 and byte strings are sequences of them.   *)
(* A usize that can wrap is held by its two's-complement representative:   *)
(* -1 stands for usize::MAX, so wrapping + and - are integer + and - and   *)
(* only comparisons and indexing have to treat a negative value as huge.   *)
(***************************************************************************)
EXTENDS Integers, Sequences, FiniteSets, TLC

VARIABLES
    wire,             \* the bytes the peer sends on the connection, in order
    avail,            \* bytes that have arrived at the socket and are not read yet
    closed,           \* the peer has closed after sending all of wire
    failed,           \* the transport has failed: the next read is an I/O error
    elapsed,          \* the detection timer has fired
    consumed,         \* every byte the read calls have returned so far, in order
    nreads,           \* number of reads that returned bytes (3 stands for 3 or more)
    firstRead,        \* size of the first such read, while there are at most two
    build,            \* "release" once an overflow has wrapped, "any" before
    buf,              \* BytesMut: the readable bytes
    cap,              \* BytesMut: capacity()
    off,              \* BytesMut: bytes advanced past at the front of the allocation
    i,                \* DetectHttp: scan cursor
    maybe_h2,         \* DetectHttp: the H2 preface is not ruled out
    msg_len,          \* read_prefaced: declared message length
    rem,              \* read_prefaced: buf.capacity() at the length check, -1 before
    pc,               \* where the detector is
    via,              \* what ended the detection: "read", "eof", "timeout"
    kind,             \* DetectHttp: classification returned
    header,           \* DetectHeader: ConditionalHeader returned
    err,              \* the error returned, "" when none
    prefix,           \* the replay prefix of the PrefixedIo returned
    scanned,          \* DetectHttp: every j the CRLF scan has compared buf[j..j+2] at
    buf0,             \* encode_prefaced: what its buffer held when it was called
    inbound,          \* resolution: the items the response stream delivers, in order
    polled,           \* resolution: how many of them stream.next() has returned
    updates,          \* resolution: the items the update stream has yielded, in order
    origins,          \* resolution: for each of them, the inbound item it came from
    rpcs              \* Resolve::call: how many Get requests have been issued

vars == <<wire, avail, closed, failed, elapsed, consumed, nreads, firstRead,
          build, buf, cap, off, i, maybe_h2, msg_len, rem, pc, via,
          kind, header, err, prefix, scanned, buf0, inbound, polled, updates,
          origins, rpcs>>

resolver == <<inbound, polled, updates, origins, rpcs>>

io == <<wire, avail, closed, failed, elapsed>>

(***************************************************************************)
(* Bounds of the model.                                                    *)
(***************************************************************************)
\* DetectHttp.capacity: DetectHttp::new sets it to BUFFER_CAPACITY (8192);
\* the detector is run here with a small buffer so that it can fill up.
capacity == 26
\* Longest wire drawn exhaustively from Alphabet.
MaxLen == 3

(***************************************************************************)
(* Bytes.                                                                  *)
(***************************************************************************)
CR == 13
LF == 10
SP == 32

Min(a, b) == IF a < b THEN a ELSE b
Max(a, b) == IF a > b THEN a ELSE b
Drop(s, n) == SubSeq(s, n + 1, Len(s))
Take(s, n) == SubSeq(s, 1, n)

\* Option<Name>
NameNone == [some |-> FALSE, s |-> <<>>]
NameSome(n) == [some |-> TRUE, s |-> n]

\* ConditionalHeader = Conditional<Header, Reason>, and "unset" before detect returns
Unset == [tag |-> "unset", reason |-> "", port |-> 0, name |-> NameNone]
SomeHeader(port, name) == [tag |-> "Some", reason |-> "", port |-> port, name |-> name]
Absent(reason) == [tag |-> "None", reason |-> reason, port |-> 0, name |-> NameNone]

\* b"PRI * HTTP/2.0\r\n\r\nSM\r\n\r\n"
H2_PREFACE ==
    <<80, 82, 73, 32, 42, 32, 72, 84, 84, 80, 47, 50, 46, 48, 13, 10,
      13, 10, 83, 77, 13, 10, 13, 10>>
H2_FIRST_LINE_LEN == 16

\* tests: b"GET / HTTP/1.1\r\n"
HTTP11_LINE ==
    <<71, 69, 84, 32, 47, 32, 72, 84, 84, 80, 47, 49, 46, 49, 13, 10>>

(***************************************************************************)
(* httparse::Request::parse with room for no header, as detect calls it.   *)
(* Positions are 1-based; a step returns [st, pos].                        *)
(***************************************************************************)
IsToken(b) == b > 31 /\ b < 127
IsUriToken(b) == b > 32 /\ b < 127 /\ b \notin {34, 60, 62, 92, 94, 96, 123, 124, 125}
IsHeaderNameToken(b) ==
    \/ b \in 48..57 \/ b \in 65..90 \/ b \in 97..122
    \/ b \in {33, 35, 36, 37, 38, 39, 42, 43, 45, 46, 94, 95, 96, 124, 126}

RECURSIVE SkipEmptyLines(_, _)
SkipEmptyLines(b, p) ==
    IF p > Len(b) THEN [st |-> "Partial", pos |-> p]
    ELSE IF b[p] = CR
         THEN IF p + 1 > Len(b) THEN [st |-> "Partial", pos |-> p]
              ELSE IF b[p + 1] = LF THEN SkipEmptyLines(b, p + 2)
              ELSE [st |-> "Err", pos |-> p]
    ELSE IF b[p] = LF THEN SkipEmptyLines(b, p + 1)
    ELSE [st |-> "Ok", pos |-> p]

RECURSIVE ParseToken(_, _)
ParseToken(b, p) ==
    IF p > Len(b) THEN [st |-> "Partial", pos |-> p]
    ELSE IF b[p] = SP THEN [st |-> "Ok", pos |-> p + 1]
    ELSE IF ~IsToken(b[p]) THEN [st |-> "Err", pos |-> p]
    ELSE ParseToken(b, p + 1)

RECURSIVE ParseUri(_, _)
ParseUri(b, p) ==
    IF p > Len(b) THEN [st |-> "Partial", pos |-> p]
    ELSE IF b[p] = SP THEN [st |-> "Ok", pos |-> p + 1]
    ELSE IF ~IsUriToken(b[p]) THEN [st |-> "Err", pos |-> p]
    ELSE ParseUri(b, p + 1)

\* b"HTTP/1."
VersionStem == <<72, 84, 84, 80, 47, 49, 46>>

ParseVersion(b, p) ==
    IF p + 7 <= Len(b)
    THEN IF SubSeq(b, p, p + 6) = VersionStem /\ b[p + 7] \in {48, 49}
         THEN [st |-> "Ok", pos |-> p + 8]
         ELSE [st |-> "Err", pos |-> p]
    ELSE IF \A k \in 0..(Len(b) - p) : k < 7 => b[p + k] = VersionStem[k + 1]
         THEN [st |-> "Partial", pos |-> p]
         ELSE [st |-> "Err", pos |-> p]

Newline(b, p) ==
    IF p > Len(b) THEN [st |-> "Partial", pos |-> p]
    ELSE IF b[p] = CR
         THEN IF p + 1 > Len(b) THEN [st |-> "Partial", pos |-> p]
              ELSE IF b[p + 1] = LF THEN [st |-> "Ok", pos |-> p + 2]
              ELSE [st |-> "Err", pos |-> p]
    ELSE IF b[p] = LF THEN [st |-> "Ok", pos |-> p + 1]
    ELSE [st |-> "Err", pos |-> p]

\* parse_headers_iter over an empty header array
ParseNoHeaders(b, p) ==
    IF p > Len(b) THEN "Partial"
    ELSE IF b[p] = CR
         THEN IF p + 1 > Len(b) THEN "Partial"
              ELSE IF b[p + 1] = LF THEN "Complete"
              ELSE "Err"
    ELSE IF b[p] = LF THEN "Complete"
    ELSE IF ~IsHeaderNameToken(b[p]) THEN "Err"
    ELSE "TooManyHeaders"

\* "Complete" | "Partial" | "TooManyHeaders" | "Err" (any other error)
HttpParse(b) ==
    LET e == SkipEmptyLines(b, 1) IN
    IF e.st # "Ok" THEN e.st ELSE
    LET m == ParseToken(b, e.pos) IN
    IF m.st # "Ok" THEN m.st ELSE
    LET u == ParseUri(b, m.pos) IN
    IF u.st # "Ok" THEN u.st ELSE
    LET v == ParseVersion(b, u.pos) IN
    IF v.st # "Ok" THEN v.st ELSE
    LET n == Newline(b, v.pos) IN
    IF n.st # "Ok" THEN n.st ELSE
    ParseNoHeaders(b, n.pos)

\* match p.parse(&buf[..]) { Ok(_) | Err(TooManyHeaders) => Some(Http1), Err(_) => None }
ParseKindComplete(b) == IF HttpParse(b) = "Complete" THEN "Http1" ELSE "None"
ParseKind(b) == IF HttpParse(b) = "Err" THEN "None" ELSE "Http1"

(***************************************************************************)
(* bytes::BytesMut as (buf, cap, off) and tokio's read_buf on it, as the   *)
(* calls in detect and read_prefaced use them.                             *)
(***************************************************************************)
\* BytesMut::reserve(additional) on a buffer of len readable bytes: nothing when
\* the spare capacity suffices, else the bytes advanced past are reclaimed when
\* that suffices, else the allocation grows as Vec::reserve grows it.
Reserve(len, cp, of, additional) ==
    IF cp - len >= additional THEN [cap |-> cp, off |-> of]
    ELSE IF cp - len + of >= additional THEN [cap |-> cp + of, off |-> 0]
    ELSE [cap |-> Max(2 * (of + cp), of + len + additional) - of, off |-> of]

\* BufMut::chunk_mut for BytesMut: a full buffer reserves 64 more bytes, so a
\* read into a BytesMut always has room (remaining_mut() is never 0).
ChunkMut(len, cp, of) ==
    IF cp = len THEN Reserve(len, cp, of, 64) ELSE [cap |-> cp, off |-> of]

\* io.read_buf(&mut buf): the bytes one read returns are those that have
\* arrived, as far as they fit the spare capacity.
ReadSize(len, cp, of) == Min(avail, ChunkMut(len, cp, of).cap - len)

NextChunk(sz) == SubSeq(wire, Len(consumed) + 1, Len(consumed) + sz)

\* the buffer after read_buf has put the chunk behind the bytes it holds
ReadPrepend(b, chunk) == chunk \o b
ReadInto(b, chunk) == b \o chunk

\* the read half of select_biased! / time::timeout is ready
ReadReady == avail > 0 \/ closed \/ failed

(***************************************************************************)
(* DetectHttp::detect                                                      *)
(***************************************************************************)
is_h2_first_line(line) ==
    Len(line) = H2_FIRST_LINE_LEN /\ line = Take(H2_PREFACE, H2_FIRST_LINE_LEN)

\* if maybe_h2 && buf.len() >= H2_PREFACE.len() { if &buf[..H2_PREFACE.len()] == H2_PREFACE
H2MatchedLate(b, mh) ==
    mh /\ Len(b) > Len(H2_PREFACE) /\ Take(b, Len(H2_PREFACE)) = H2_PREFACE
H2Matched(b, mh) ==
    mh /\ Len(b) >= Len(H2_PREFACE) /\ Take(b, Len(H2_PREFACE)) = H2_PREFACE

\* maybe_h2 after the preface check of an iteration that did not return
MaybeH2After(b, mh) == mh /\ Len(b) < Len(H2_PREFACE)

\* for j in i..(buf.len() - 1): "continue" when the loop ends without a return,
\* else the classification returned. j is 0-based; a wrapped cursor (negative
\* representative) is beyond every length and makes the range empty.
RECURSIVE Scan(_, _, _)
Scan(b, j, mh) ==
    IF j < 0 \/ j >= Len(b) - 1 THEN "continue"
    ELSE IF b[j + 1] = CR /\ b[j + 2] = LF
         THEN IF ~is_h2_first_line(Take(b, j + 2)) THEN ParseKind(b)
              ELSE IF ~mh THEN "None"
              ELSE Scan(b, j + 1, mh)
    ELSE Scan(b, j + 1, mh)

\* The j at which the loop compares &buf[j..j + 2] with b"\r\n": from the
\* cursor on, up to the j it returns at or to the end of the range.
ScanReturnsAt(b, j, mh) ==
    /\ b[j + 1] = CR /\ b[j + 2] = LF
    /\ ~is_h2_first_line(Take(b, j + 2)) \/ ~mh
Examined(b, i0, mh) ==
    {j \in 0..(Len(b) - 2) :
        i0 >= 0 /\ j >= i0 /\ \A k \in i0..(j - 1) : ~ScanReturnsAt(b, k, mh)}

\* i += sz - 1; if buf[i] == b'\r' { i -= 1; }
\* [ok, i]: ok is FALSE when the step panics (index out of bounds, or an
\* overflow in a build that checks for it).
\* The outcomes are a set: at i -= 1 with i = 0 a build with overflow checks
\* panics and one without wraps to usize::MAX. A cursor that has wrapped is
\* only found in a build without the checks, where i += sz - 1 wraps as well.
Advance(b, sz, i0) ==
    LET i1 == i0 + sz - 1 IN
    IF i1 < 0 \/ i1 >= Len(b) THEN {[ok |-> FALSE, i |-> i1, build |-> build]}
    ELSE IF b[i1 + 1] # CR THEN {[ok |-> TRUE, i |-> i1, build |-> build]}
    ELSE IF i1 > 0 THEN {[ok |-> TRUE, i |-> i1 - 1, build |-> build]}
    ELSE {[ok |-> TRUE, i |-> i1 - 1, build |-> "release"]}
           \cup (IF build = "any" THEN {[ok |-> FALSE, i |-> i1, build |-> build]}
                 ELSE {})

\* return Ok((kind, io::PrefixedIo::new(buf.freeze(), io)))
HttpReturn(k, b, v) ==
    /\ pc' = "done"
    /\ via' = v
    /\ kind' = k
    /\ prefix' = b
    /\ UNCHANGED <<i, maybe_h2, err, build>>

\* One iteration of the loop whose read returned sz > 0 bytes.
HttpRead ==
    /\ pc = "reading"
    /\ avail > 0
    /\ ~failed
    /\ LET r == ChunkMut(Len(buf), cap, off)
           sz == ReadSize(Len(buf), cap, off)
           chunk == NextChunk(sz)
           b == ReadInto(buf, chunk)
           mh == MaybeH2After(b, maybe_h2)
           s == Scan(b, i, mh)
       IN /\ avail' = avail - sz
          /\ consumed' = consumed \o chunk
          /\ nreads' = Min(nreads + 1, 3)
          /\ firstRead' = IF nreads = 0 THEN sz ELSE IF nreads = 1 THEN firstRead ELSE 0
          /\ buf' = b
          /\ cap' = r.cap
          /\ off' = r.off
          /\ scanned' = IF H2Matched(b, maybe_h2) THEN scanned
                        ELSE scanned \cup Examined(b, i, mh)
          /\ IF H2Matched(b, maybe_h2) THEN HttpReturn("H2", b, "read")
             ELSE IF s # "continue" THEN HttpReturn(s, b, "read")
             ELSE \E a \in Advance(b, sz, i) :
                  /\ maybe_h2' = mh
                  /\ i' = a.i
                  /\ build' = a.build
                  /\ pc' = IF a.ok THEN "reading" ELSE "panic"
                  /\ via' = IF a.ok THEN via ELSE "read"
                  /\ UNCHANGED <<kind, prefix, err>>
    /\ UNCHANGED <<wire, closed, failed, elapsed, msg_len, rem, header>>
    /\ UNCHANGED <<buf0, resolver>>

\* The read returned 0: the peer has closed.
HttpEof ==
    /\ pc = "reading"
    /\ avail = 0 /\ closed /\ ~failed
    /\ HttpReturn("None", buf, "eof")
    /\ UNCHANGED <<io, consumed, nreads, firstRead, buf, cap, off, msg_len, rem, header>>
    /\ UNCHANGED <<scanned, buf0, resolver>>

\* res?: the read failed.
HttpReadErr ==
    /\ pc = "reading"
    /\ failed
    /\ pc' = "error"
    /\ via' = "read"
    /\ err' = "Io"
    /\ UNCHANGED <<io, consumed, nreads, firstRead, build, buf, cap, off,
                   i, maybe_h2, msg_len, rem, kind, header, prefix>>
    /\ UNCHANGED <<scanned, buf0, resolver>>

\* select_biased! takes the timeout branch: the read is pending, the sleep is over.
HttpTimeoutErr ==
    /\ pc = "reading"
    /\ ~ReadReady /\ elapsed
    /\ pc' = "error"
    /\ via' = "timeout"
    /\ err' = "Elapsed"
    /\ UNCHANGED <<kind, prefix, i, maybe_h2, build>>
    /\ UNCHANGED <<io, consumed, nreads, firstRead, buf, cap, off, msg_len, rem, header>>
    /\ UNCHANGED <<scanned, buf0, resolver>>
HttpTimeout ==
    /\ pc = "reading"
    /\ ~ReadReady /\ elapsed
    /\ HttpReturn("None", buf, "timeout")
    /\ UNCHANGED <<io, consumed, nreads, firstRead, buf, cap, off, msg_len, rem, header>>
    /\ UNCHANGED <<scanned, buf0, resolver>>

(***************************************************************************)
(* The connection and the timer, while a detector is running.              *)
(***************************************************************************)
Running == pc \in {"reading", "preface", "body"}

Arrive ==
    /\ Running /\ ~closed /\ ~failed
    /\ \E n \in 1..(Len(wire) - Len(consumed) - avail) : avail' = avail + n
    /\ UNCHANGED <<wire, closed, failed, elapsed, consumed, nreads, firstRead,
                   build, buf, cap, off, i, maybe_h2, msg_len, rem, pc, via,
                   kind, header, err, prefix>>
    /\ UNCHANGED <<scanned, buf0, resolver>>

\* The peer closes: after the last byte of wire, or earlier while none is pending.
Close ==
    /\ Running /\ ~closed /\ ~failed
    /\ avail = 0 \/ Len(consumed) + avail = Len(wire)
    /\ closed' = TRUE
    /\ UNCHANGED <<wire, avail, failed, elapsed, consumed, nreads, firstRead,
                   build, buf, cap, off, i, maybe_h2, msg_len, rem, pc, via,
                   kind, header, err, prefix>>
    /\ UNCHANGED <<scanned, buf0, resolver>>

Fail ==
    /\ Running /\ ~closed /\ ~failed
    /\ avail = 0
    /\ failed' = TRUE
    /\ UNCHANGED <<wire, avail, closed, elapsed, consumed, nreads, firstRead,
                   build, buf, cap, off, i, maybe_h2, msg_len, rem, pc, via,
                   kind, header, err, prefix>>
    /\ UNCHANGED <<scanned, buf0, resolver>>

TimerFire ==
    /\ Running /\ ~elapsed
    /\ elapsed' = TRUE
    /\ UNCHANGED <<wire, avail, closed, failed, consumed, nreads, firstRead,
                   build, buf, cap, off, i, maybe_h2, msg_len, rem, pc, via,
                   kind, header, err, prefix>>
    /\ UNCHANGED <<scanned, buf0, resolver>>

(***************************************************************************)
(* The streams DetectHttp is run on.                                       *)
(***************************************************************************)
Alphabet == {CR, LF, 71, SP}

RECURSIVE SeqsUpTo(_, _)
SeqsUpTo(S, n) ==
    IF n = 0 THEN {<<>>}
    ELSE LET R == SeqsUpTo(S, n - 1)
         IN R \cup {Append(s, x) : s \in {t \in R : Len(t) = n - 1}, x \in S}

RECURSIVE Fill(_, _)
Fill(x, n) == IF n <= 0 THEN <<>> ELSE <<x>> \o Fill(x, n - 1)

\* tests::unknown: b"foo.bar.blah\n"
FooBarBlah == <<102, 111, 111, 46, 98, 97, 114, 46, 98, 108, 97, 104, 10>>

HttpWires ==
    SeqsUpTo(Alphabet, MaxLen)
      \cup { H2_PREFACE,
             H2_PREFACE \o <<80, 82>>,
             Take(H2_PREFACE, 16) \o <<120, 120, 120, 120, 120, 120, 13, 10, 120>>,
             Take(H2_PREFACE, 18) \o <<88, 13, 10>>,
             HTTP11_LINE,
             HTTP11_LINE \o <<72, 58, 49, 13, 10, 13, 10>>,
             Take(HTTP11_LINE, 14) \o <<LF>>,
             <<71, 32, 47, 32, 72, 84, 84, 80, 47, 50, 46, 48, 13, 10>>,
             FooBarBlah,
             Fill(120, capacity + 1) }

InitHttp ==
    /\ wire \in HttpWires
    /\ avail = 0
    /\ closed = FALSE
    /\ failed = FALSE
    /\ elapsed = FALSE
    /\ consumed = <<>>
    /\ nreads = 0
    /\ firstRead = 0
    /\ build = "any"
    /\ buf = <<>>
    /\ cap = capacity
    /\ off = 0
    /\ i = 0
    /\ maybe_h2 = TRUE
    /\ msg_len = 0
    /\ rem = -1
    /\ pc = "reading"
    /\ via = ""
    /\ kind = "unset"
    /\ header = Unset
    /\ err = ""
    /\ prefix = <<>>
    /\ scanned = {}
    /\ buf0 = <<>>
    /\ inbound = <<>>
    /\ polled = 0
    /\ updates = <<>>
    /\ origins = <<>>
    /\ rpcs = 0

NextHttp ==
    \/ Arrive
    \/ Close
    \/ Fail
    \/ TimerFire
    \/ HttpRead
    \/ HttpEof
    \/ HttpReadErr
    \/ HttpTimeout

SpecHttp == InitHttp /\ [][NextHttp]_vars

(***************************************************************************)
(* Claims about DetectHttp, checked under SpecHttp.                        *)
(***************************************************************************)
IsPrefixOf(s, t) == Len(s) <= Len(t) /\ s = Take(t, Len(s))

\* C1: whenever detect returns Ok (H2, Http1 or absent), the replay prefix is
\* exactly the bytes the reads returned, in wire order.
C1_Transparency ==
    (pc = "done" /\ kind \in {"H2", "Http1", "None"})
        => (prefix = consumed /\ consumed = Take(wire, Len(consumed)))
C1_Witness ==
    pc = "done" /\ kind = "Http1" /\ nreads = 3 /\ prefix = HTTP11_LINE

\* C2: a read that leaves the buffer a proper prefix of the H2 preface never
\* ends the detection, so the preface is classified H2 however it is split.
C2_KeepsReadingOnPrefacePrefix ==
    /\ (pc = "done" /\ via = "read")
          => ~(Len(prefix) < Len(H2_PREFACE) /\ IsPrefixOf(prefix, H2_PREFACE))
    /\ (wire = H2_PREFACE /\ pc = "done" /\ via = "read") => kind = "H2"

\* C3: as soon as a read leaves at least 24 bytes in the buffer and the first 24
\* are the preface, detect has returned H2 (no state keeps reading with them).
C3_H2Immediately ==
    (Len(buf) >= Len(H2_PREFACE) /\ Take(buf, Len(H2_PREFACE)) = H2_PREFACE)
        => (pc = "done" /\ via = "read" /\ kind = "H2")
C3_Witness ==
    /\ pc = "done" /\ kind = "H2"
    /\ nreads = 2 /\ firstRead = H2_FIRST_LINE_LEN
    /\ prefix = H2_PREFACE

\* C4: on "GET / HTTP/1.1\r\n", however the reads split it, a read ends the
\* detection only with Http1 and the whole line as prefix, and nothing panics.
C4_Http1Line ==
    (wire = HTTP11_LINE)
        => /\ pc # "panic"
           /\ (pc = "done" /\ via = "read")
                 => (kind = "Http1" /\ prefix = HTTP11_LINE)
C4_Witness ==
    /\ wire = HTTP11_LINE /\ pc = "done" /\ kind = "Http1"
    /\ nreads = 2 /\ firstRead = 15
    /\ prefix = HTTP11_LINE

\* C5: a detection ended by the timeout or by EOF returns Ok with no
\* classification and all the bytes read so far as prefix.
C5_TimeoutOrEofIsAbsent ==
    (via \in {"timeout", "eof"})
        => (pc = "done" /\ err = "" /\ kind = "None" /\ prefix = consumed)
C5_Witness ==
    /\ pc = "done" /\ via = "timeout" /\ kind = "None"
    /\ nreads = 0 /\ prefix = <<>>

\* C6: the buffer never holds more than the configured capacity (a buffer that
\* is full without a decision ends the detection instead of growing).
C6_NeverBeyondCapacity == Len(buf) <= capacity

(***************************************************************************)
(* Header: the connection header and its wire form.                        *)
(***************************************************************************)
\* b"proxy.l5d.io/connect\r\n\r\n"
PREFACE ==
    <<112, 114, 111, 120, 121, 46, 108, 53, 100, 46, 105, 111, 47, 99, 111,
      110, 110, 101, 99, 116, 13, 10, 13, 10>>
PREFACE_LEN == Len(PREFACE) + 4

\* DetectHeader::detect allocates BUFFER_CAPACITY (65_536) bytes; the model
\* runs it with a small buffer so that declared lengths can exceed it.
HeaderCapacity == 40

\* buf.put_u32(len as u32) / buf.get_u32(): big-endian
PutU32LE(n) == <<n % 256, (n \div 256) % 256, (n \div 65536) % 256, (n \div 16777216) % 256>>
PutU32(n) == <<(n \div 16777216) % 256, (n \div 65536) % 256, (n \div 256) % 256, n % 256>>
GetU32(b) == ((b[1] * 256 + b[2]) * 256 + b[3]) * 256 + b[4]

\* The protobuf codec of proto::Header { int32 port = 1; string name = 2; }.
RECURSIVE EncodeVarint(_)
EncodeVarint(n) ==
    IF n < 128 THEN <<n>> ELSE <<128 + (n % 128)>> \o EncodeVarint(n \div 128)

\* [ok, val, pos]: the varint at position p and the position behind it. The
\* streams of the model hold no varint longer than four bytes.
RECURSIVE DecodeVarintFrom(_, _, _, _)
DecodeVarintFrom(b, p, acc, scale) ==
    IF p > Len(b) \/ scale > 2097152 THEN [ok |-> FALSE, val |-> 0, pos |-> p]
    ELSE IF b[p] < 128 THEN [ok |-> TRUE, val |-> acc + b[p] * scale, pos |-> p + 1]
    ELSE DecodeVarintFrom(b, p + 1, acc + (b[p] - 128) * scale, scale * 128)
DecodeVarint(b, p) == DecodeVarintFrom(b, p, 0, 1)

\* prost's Message::encode: fields with the default value are not written
ProtoEncode(port, name) ==
    (IF port = 0 THEN <<>> ELSE <<8>> \o EncodeVarint(port))
      \o (IF name = <<>> THEN <<>> ELSE <<18>> \o EncodeVarint(Len(name)) \o name)

ProtoBad == [ok |-> FALSE, port |-> 0, name |-> <<>>]

\* prost's Message::decode: known fields by tag and wire type, others skipped
RECURSIVE ProtoDecodeFrom(_, _, _)
ProtoDecodeFrom(b, p, acc) ==
    IF p > Len(b) THEN acc ELSE
    LET k == DecodeVarint(b, p)
        tag == k.val \div 8
        wt == k.val % 8
        v == DecodeVarint(b, k.pos)
    IN IF ~k.ok \/ tag = 0 \/ wt \in {3, 4, 6, 7} THEN ProtoBad
       ELSE IF tag = 1
            THEN IF wt # 0 \/ ~v.ok THEN ProtoBad
                 ELSE ProtoDecodeFrom(b, v.pos, [acc EXCEPT !.port = v.val])
       ELSE IF tag = 2
            THEN IF wt # 2 \/ ~v.ok \/ v.pos + v.val - 1 > Len(b) THEN ProtoBad
                 ELSE LET str == SubSeq(b, v.pos, v.pos + v.val - 1)
                      IN IF \E x \in 1..Len(str) : str[x] > 127 THEN ProtoBad
                         ELSE ProtoDecodeFrom(b, v.pos + v.val, [acc EXCEPT !.name = str])
       ELSE IF wt = 0 THEN (IF ~v.ok THEN ProtoBad ELSE ProtoDecodeFrom(b, v.pos, acc))
       ELSE IF wt = 2
            THEN IF ~v.ok \/ v.pos + v.val - 1 > Len(b) THEN ProtoBad
                 ELSE ProtoDecodeFrom(b, v.pos + v.val, acc)
       ELSE LET w == IF wt = 1 THEN 8 ELSE 4
            IN IF k.pos + w - 1 > Len(b) THEN ProtoBad
               ELSE ProtoDecodeFrom(b, k.pos + w, acc)
ProtoDecode(b) == ProtoDecodeFrom(b, 1, [ok |-> TRUE, port |-> 0, name |-> <<>>])

\* linkerd2_dns_name::Name: a DNS-style name, kept in lower case.
ToLower(c) == IF c \in 65..90 THEN c + 32 ELSE c
IsLabelChar(c) == c \in 48..57 \/ c \in 65..90 \/ c \in 97..122 \/ c = 45 \/ c = 95
ValidName(n) ==
    /\ Len(n) > 0
    /\ \A x \in 1..Len(n) : IsLabelChar(n[x]) \/ n[x] = 46
    /\ n[1] # 46 /\ n[1] # 45
    /\ \A x \in 1..(Len(n) - 1) : ~(n[x] = 46 /\ n[x + 1] \in {46, 45})
    /\ \A x \in 1..(Len(n) - 1) : ~(n[x] = 45 /\ n[x + 1] = 46)
    /\ n[Len(n)] # 45
NameFromStr(n) == [x \in 1..Len(n) |-> ToLower(n[x])]
NameToString(n) == n

\* Header::encode: port as i32, the name as a string, "" when there is none
HeaderEncode(h) ==
    ProtoEncode(h.port, IF h.name.some THEN NameToString(h.name.s) ELSE <<>>)

\* Header::encode_prefaced(&self, buf) on a buffer holding b0: the preface, four
\* bytes for the length, the message, then the length of everything behind the
\* first PREFACE_LEN bytes of the buffer written at PREFACE.len()..PREFACE_LEN.
EncodePrefacedLE(h, b0) ==
    LET whole == b0 \o PREFACE \o <<0, 0, 0, 0>> \o HeaderEncode(h)
        len == Len(whole) - PREFACE_LEN
    IN Take(whole, Len(PREFACE)) \o PutU32LE(len) \o Drop(whole, PREFACE_LEN)
EncodePrefacedShort(h, b0) ==
    LET whole == b0 \o PREFACE \o <<0, 0, 0, 0>> \o HeaderEncode(h)
        len == Len(whole) - Len(PREFACE)
    IN Take(whole, Len(PREFACE)) \o PutU32(len) \o Drop(whole, PREFACE_LEN)
EncodePrefaced(h, b0) ==
    LET whole == b0 \o PREFACE \o <<0, 0, 0, 0>> \o HeaderEncode(h)
        len == Len(whole) - PREFACE_LEN
    IN Take(whole, Len(PREFACE)) \o PutU32(len) \o Drop(whole, PREFACE_LEN)

\* Header::decode: [err, header]
HeaderDecode(msg) ==
    LET h == ProtoDecode(msg) IN
    IF ~h.ok THEN [err |-> "InvalidData: Invalid header message", header |-> Unset]
    ELSE IF Len(h.name) = 0
         THEN [err |-> "", header |-> SomeHeader(h.port % 65536, NameNone)]
    ELSE IF ~ValidName(h.name)
         THEN [err |-> "InvalidData: Invalid name", header |-> Unset]
    ELSE [err |-> "", header |-> SomeHeader(h.port % 65536, NameSome(NameFromStr(h.name)))]

(***************************************************************************)
(* Header::read_prefaced under DetectHeader::detect                        *)
(***************************************************************************)
\* if msg_len > buf.capacity() + PREFACE_LEN
LengthExceedsRemaining(ml, cp) == ml > cp
LengthExceeds(ml, cp) == ml > cp + PREFACE_LEN

\* buf.split_to(msg_len); Self::decode(msg.freeze())
Finish(b, cp, of, ml, rm) ==
    LET d == HeaderDecode(Take(b, ml)) IN
    [pc |-> IF d.err = "" THEN "done" ELSE "error",
     buf |-> Drop(b, ml), cap |-> cp - ml, off |-> of + ml,
     msg_len |-> ml, rem |-> rm, header |-> d.header, err |-> d.err]

\* if &buf.bytes()[..PREFACE.len()] != PREFACE { return Ok(None); }
NoPrefaceAdvanced(b, cp, of) ==
    [pc |-> "done", buf |-> Drop(b, Len(PREFACE)), cap |-> cp - Len(PREFACE),
     off |-> of + Len(PREFACE), msg_len |-> 0, rem |-> -1,
     header |-> Absent("NoPreface"), err |-> ""]
NoPreface(b, cp, of) ==
    [pc |-> "done", buf |-> b, cap |-> cp, off |-> of, msg_len |-> 0,
     rem |-> -1, header |-> Absent("NoPreface"), err |-> ""]

\* read_prefaced once buf.len() >= PREFACE_LEN, up to its next read or its
\* return: the preface check, advance, get_u32, the length check, reserve.
AfterPreface(b, cp, of) ==
    IF Take(b, Len(PREFACE)) # PREFACE THEN NoPreface(b, cp, of)
    ELSE LET ml == GetU32(Drop(b, Len(PREFACE)))
             b2 == Drop(b, PREFACE_LEN)
             cp2 == cp - PREFACE_LEN
             of2 == of + PREFACE_LEN
             r == Reserve(Len(b2), cp2, of2, ml)
         IN IF LengthExceeds(ml, cp2)
            THEN [pc |-> "error", buf |-> b2, cap |-> cp2, off |-> of2,
                  msg_len |-> ml, rem |-> cp2, header |-> Unset,
                  err |-> "InvalidData: Message length exceeds capacity"]
            ELSE IF Len(b2) < ml
                 THEN [pc |-> "body", buf |-> b2, cap |-> r.cap, off |-> r.off,
                       msg_len |-> ml, rem |-> cp2, header |-> Unset, err |-> ""]
            ELSE Finish(b2, r.cap, r.off, ml, cp2)

\* The detector moves to the point o of read_prefaced; when read_prefaced has
\* returned Ok, detect returns Ok((header, io::PrefixedIo::new(buf, io))).
HdrGoto(o, v) ==
    /\ pc' = o.pc
    /\ buf' = o.buf
    /\ cap' = o.cap
    /\ off' = o.off
    /\ msg_len' = o.msg_len
    /\ rem' = o.rem
    /\ header' = o.header
    /\ err' = o.err
    /\ via' = IF o.pc \in {"done", "error"} THEN v ELSE via
    /\ prefix' = IF o.pc = "done" THEN o.buf ELSE prefix

HdrStay(b, r) ==
    [pc |-> pc, buf |-> b, cap |-> r.cap, off |-> r.off, msg_len |-> msg_len,
     rem |-> rem, header |-> header, err |-> err]

\* while buf.len() < PREFACE_LEN { if io.read_buf(buf).await? == 0 { .. } }: a read of sz > 0
HdrPrefaceRead ==
    /\ pc = "preface"
    /\ avail > 0
    /\ ~failed
    /\ LET r == ChunkMut(Len(buf), cap, off)
           sz == ReadSize(Len(buf), cap, off)
           chunk == NextChunk(sz)
           b == ReadInto(buf, chunk)
       IN /\ avail' = avail - sz
          /\ consumed' = consumed \o chunk
          /\ IF Len(b) < PREFACE_LEN THEN HdrGoto(HdrStay(b, r), "read")
             ELSE HdrGoto(AfterPreface(b, r.cap, r.off), "read")
    /\ UNCHANGED <<wire, closed, failed, elapsed, nreads, firstRead, build, i,
                   maybe_h2, kind>>
    /\ UNCHANGED <<scanned, buf0, resolver>>

\* while buf.len() < msg_len { if io.read_buf(buf).await? == 0 { .. } }: a read of sz > 0
HdrBodyRead ==
    /\ pc = "body"
    /\ avail > 0
    /\ ~failed
    /\ LET r == ChunkMut(Len(buf), cap, off)
           sz == ReadSize(Len(buf), cap, off)
           chunk == NextChunk(sz)
           b == ReadInto(buf, chunk)
       IN /\ avail' = avail - sz
          /\ consumed' = consumed \o chunk
          /\ IF Len(b) < msg_len THEN HdrGoto(HdrStay(b, r), "read")
             ELSE HdrGoto(Finish(b, r.cap, r.off, msg_len, rem), "read")
    /\ UNCHANGED <<wire, closed, failed, elapsed, nreads, firstRead, build, i,
                   maybe_h2, kind>>
    /\ UNCHANGED <<scanned, buf0, resolver>>

\* the first loop's read returns 0: return Ok(None)
HdrPrefaceEof ==
    /\ pc = "preface"
    /\ avail = 0 /\ closed /\ ~failed
    /\ HdrGoto([HdrStay(buf, [cap |-> cap, off |-> off]) EXCEPT
                   !.pc = "done", !.header = Absent("NoPreface")], "eof")
    /\ UNCHANGED <<io, consumed, nreads, firstRead, build, i, maybe_h2, kind>>
    /\ UNCHANGED <<scanned, buf0, resolver>>

\* the second loop's read returns 0: Err(UnexpectedEof)
HdrBodyEofAbsent ==
    /\ pc = "body"
    /\ avail = 0 /\ closed /\ ~failed
    /\ HdrGoto([HdrStay(buf, [cap |-> cap, off |-> off]) EXCEPT
                   !.pc = "done", !.header = Absent("NoPreface")], "eof")
    /\ UNCHANGED <<io, consumed, nreads, firstRead, build, i, maybe_h2, kind>>
    /\ UNCHANGED <<scanned, buf0, resolver>>
HdrBodyEof ==
    /\ pc = "body"
    /\ avail = 0 /\ closed /\ ~failed
    /\ HdrGoto([HdrStay(buf, [cap |-> cap, off |-> off]) EXCEPT
                   !.pc = "error",
                   !.err = "UnexpectedEof: Full header message not provided"], "eof")
    /\ UNCHANGED <<io, consumed, nreads, firstRead, build, i, maybe_h2, kind>>
    /\ UNCHANGED <<scanned, buf0, resolver>>

\* io.read_buf(buf).await? fails in either loop
HdrReadErr ==
    /\ pc \in {"preface", "body"}
    /\ failed
    /\ HdrGoto([HdrStay(buf, [cap |-> cap, off |-> off]) EXCEPT
                   !.pc = "error", !.err = "Io"], "read")
    /\ UNCHANGED <<io, consumed, nreads, firstRead, build, i, maybe_h2, kind>>
    /\ UNCHANGED <<scanned, buf0, resolver>>

\* time::timeout(self.timeout, read): read_prefaced is pending at a read and
\* the deadline has passed: Conditional::None(Reason::Timeout)
HdrTimeoutErr ==
    /\ pc \in {"preface", "body"}
    /\ ~ReadReady /\ elapsed
    /\ HdrGoto([HdrStay(buf, [cap |-> cap, off |-> off]) EXCEPT
                   !.pc = "error", !.err = "Elapsed"], "timeout")
    /\ UNCHANGED <<io, consumed, nreads, firstRead, build, i, maybe_h2, kind>>
    /\ UNCHANGED <<scanned, buf0, resolver>>
HdrTimeoutUnbiased ==
    /\ pc \in {"preface", "body"}
    /\ elapsed
    /\ HdrGoto([HdrStay(buf, [cap |-> cap, off |-> off]) EXCEPT
                   !.pc = "done", !.header = Absent("Timeout")], "timeout")
    /\ UNCHANGED <<io, consumed, nreads, firstRead, build, i, maybe_h2, kind>>
    /\ UNCHANGED <<scanned, buf0, resolver>>
HdrTimeout ==
    /\ pc \in {"preface", "body"}
    /\ ~ReadReady /\ elapsed
    /\ HdrGoto([HdrStay(buf, [cap |-> cap, off |-> off]) EXCEPT
                   !.pc = "done", !.header = Absent("Timeout")], "timeout")
    /\ UNCHANGED <<io, consumed, nreads, firstRead, build, i, maybe_h2, kind>>
    /\ UNCHANGED <<scanned, buf0, resolver>>

(***************************************************************************)
(* The streams DetectHeader is run on.                                     *)
(***************************************************************************)
\* tests::roundtrip_prefaced: port 4040, "foo.bar.example.com", then b"12345"
TestName ==
    <<102, 111, 111, 46, 98, 97, 114, 46, 101, 120, 97, 109, 112, 108, 101, 46,
      99, 111, 109>>
TestHeader == SomeHeader(4040, NameSome(TestName))
TestTrailer == <<49, 50, 51, 52, 53>>

Headers ==
    {SomeHeader(p, n) : p \in {0, 4040, 65535}, n \in {NameNone, NameSome(<<97, 46, 98>>)}}
        \cup {TestHeader}
Trailers == {<<>>, <<49, 50>>, TestTrailer}

PrefacedWires == {EncodePrefaced(h, <<>>) \o t : h \in Headers, t \in Trailers}

OtherHeaderWires ==
    SeqsUpTo(Alphabet, MaxLen)
      \cup { HTTP11_LINE \o HTTP11_LINE,
             H2_PREFACE \o <<0, 0, 0, 0, 0>>,
             Take(PREFACE, 23) \o <<11, 0, 0, 0, 2, 8, 80>>,
             PREFACE \o PutU32(HeaderCapacity + 1) \o <<8, 80>>,
             PREFACE \o PutU32(HeaderCapacity) \o Fill(0, HeaderCapacity),
             PREFACE \o <<0, 0, 1, 0>> \o <<8, 80>>,
             PREFACE \o PutU32(0) \o <<49>>,
             PREFACE \o PutU32(2) \o <<8, 128>>,
             PREFACE \o PutU32(4) \o <<18, 2, 46, 46>>,
             PREFACE \o PutU32(3) \o <<18, 1, 65>>,
             PREFACE \o PutU32(4) \o <<8, 128, 128, 4>>,
             PREFACE \o PutU32(4) \o <<24, 1, 8, 80>> }

HeaderWires == PrefacedWires \cup OtherHeaderWires

InitHeader ==
    /\ wire \in HeaderWires
    /\ avail = 0
    /\ closed = FALSE
    /\ failed = FALSE
    /\ elapsed = FALSE
    /\ consumed = <<>>
    /\ nreads = 0
    /\ firstRead = 0
    /\ build = "any"
    /\ buf = <<>>
    /\ cap = HeaderCapacity
    /\ off = 0
    /\ i = 0
    /\ maybe_h2 = TRUE
    /\ msg_len = 0
    /\ rem = -1
    /\ pc = "preface"
    /\ via = ""
    /\ kind = "unset"
    /\ header = Unset
    /\ err = ""
    /\ prefix = <<>>
    /\ scanned = {}
    /\ buf0 = <<>>
    /\ inbound = <<>>
    /\ polled = 0
    /\ updates = <<>>
    /\ origins = <<>>
    /\ rpcs = 0

NextHeader ==
    \/ Arrive
    \/ Close
    \/ Fail
    \/ TimerFire
    \/ HdrPrefaceRead
    \/ HdrBodyRead
    \/ HdrPrefaceEof
    \/ HdrBodyEof
    \/ HdrReadErr
    \/ HdrTimeout

SpecHeader == InitHeader /\ [][NextHeader]_vars

(***************************************************************************)
(* Claims about the connection header, checked under SpecHeader.           *)
(***************************************************************************)
TooLong == "InvalidData: Message length exceeds capacity"
Truncated == "UnexpectedEof: Full header message not provided"

\* A read (not an I/O error) has ended the detection.
EndedByRead == pc \in {"done", "error"} /\ via = "read" /\ err # "Io"

\* C7: when the stream is encode_prefaced(h) followed by t, then however the
\* reads are chunked a decode that ends yields h (same port, same name) and
\* leaves exactly the bytes of t that were read as the replay prefix.
C7_RoundTrip ==
    \A h \in Headers, t \in Trailers :
        (wire = EncodePrefaced(h, <<>>) \o t /\ EndedByRead)
            => /\ pc = "done"
               /\ header = h
               /\ prefix = Drop(consumed, Len(EncodePrefaced(h, <<>>)))
               /\ IsPrefixOf(prefix, t)
C7_Witness ==
    /\ wire = EncodePrefaced(TestHeader, <<>>) \o TestTrailer
    /\ pc = "done" /\ header = TestHeader /\ prefix = TestTrailer

\* C8: when the bytes read do not start with the preface, a detection ended by
\* a read or by EOF reports absent, NoPreface, with exactly the bytes read as
\* the replay prefix.
C8_NoPrefaceKeepsBytes ==
    (~IsPrefixOf(PREFACE, consumed) /\ pc \in {"done", "error"}
        /\ via \in {"read", "eof"} /\ err # "Io")
        => (pc = "done" /\ header = Absent("NoPreface") /\ prefix = consumed)
C8_Witness ==
    /\ pc = "done" /\ via = "read" /\ header = Absent("NoPreface")
    /\ Len(consumed) >= PREFACE_LEN /\ prefix = consumed

\* C9 as claimed: once the bytes read start with the whole preface, EOF is the
\* error UnexpectedEof and never "header absent".
C9_EofAfterPrefaceIsFatal ==
    (IsPrefixOf(PREFACE, consumed) /\ via = "eof")
        => (pc = "error" /\ err = Truncated /\ header.tag # "None")

\* C9 as amended: once PREFACE_LEN bytes starting with the preface have been
\* read (the preface and the whole length field), EOF is the error
\* UnexpectedEof, and absent, NoPreface is never reported.
C9_EofAfterLengthIsFatal ==
    (Len(consumed) >= PREFACE_LEN /\ IsPrefixOf(PREFACE, consumed))
        => /\ via = "eof" => (pc = "error" /\ err = Truncated)
           /\ header # Absent("NoPreface")
C9_Witness ==
    /\ pc = "error" /\ via = "eof" /\ err = Truncated
    /\ Len(consumed) > PREFACE_LEN /\ IsPrefixOf(PREFACE, consumed)

\* C10 as claimed: a declared length above the capacity left once the preface
\* and the length field are consumed is refused with InvalidData.
C10_RejectsAboveRemaining ==
    (rem >= 0 /\ msg_len > rem) => (pc = "error" /\ err = TooLong)

\* C10 as amended: the declared length is refused with InvalidData exactly when
\* it exceeds that remaining capacity plus PREFACE_LEN.
C10_RejectsAboveRemainingPlusPreface ==
    (rem >= 0) => ((msg_len > rem + PREFACE_LEN) <=> (pc = "error" /\ err = TooLong))
C10_Witness ==
    /\ pc = "error" /\ err = TooLong
    /\ rem >= 0 /\ msg_len > rem + PREFACE_LEN

(***************************************************************************)
(* Header::encode_prefaced, called on a buffer that holds buf0.            *)
(***************************************************************************)
EncodePorts == {0, 1, 127, 128, 4040, 65535}
EncodeNames == {NameNone, NameSome(<<97, 46, 98>>), NameSome(TestName)}
EncodeHeaders == {SomeHeader(p, n) : p \in EncodePorts, n \in EncodeNames}

\* tests::roundtrip_prefaced encodes into BytesMut::new(); a caller may also
\* pass a buffer that already holds bytes.
EncodeBuffers == {<<>>, <<49>>, TestTrailer, PREFACE}

InitEncode ==
    /\ header \in EncodeHeaders
    /\ buf \in EncodeBuffers
    /\ buf0 = buf
    /\ cap = Len(buf)
    /\ off = 0
    /\ pc = "encode"
    /\ wire = <<>>
    /\ avail = 0
    /\ closed = FALSE
    /\ failed = FALSE
    /\ elapsed = FALSE
    /\ consumed = <<>>
    /\ nreads = 0
    /\ firstRead = 0
    /\ build = "any"
    /\ i = 0
    /\ maybe_h2 = TRUE
    /\ msg_len = 0
    /\ rem = -1
    /\ via = ""
    /\ kind = "unset"
    /\ err = ""
    /\ prefix = <<>>
    /\ scanned = {}
    /\ inbound = <<>>
    /\ polled = 0
    /\ updates = <<>>
    /\ origins = <<>>
    /\ rpcs = 0

\* pub fn encode_prefaced(&self, buf: &mut BytesMut) -> Result<(), Error>
encode_prefaced ==
    /\ pc = "encode"
    /\ buf' = EncodePrefaced(header, buf)
    /\ cap' = Max(Reserve(Len(buf), cap, off, PREFACE_LEN).cap, Len(buf'))
    /\ pc' = "encoded"
    /\ UNCHANGED <<io, consumed, nreads, firstRead, build, off, i, maybe_h2,
                   msg_len, rem, via, kind, header, err, prefix, scanned, buf0,
                   resolver>>

NextEncode == encode_prefaced

SpecEncode == InitEncode /\ [][NextEncode]_vars

(***************************************************************************)
(* Claims about the encoder, checked under SpecEncode.                     *)
(***************************************************************************)
\* C11 as claimed: called on an empty buffer, encode_prefaced leaves the
\* preface token in the first 25 bytes, then the length L of the encoded
\* message as 4 big-endian bytes, then exactly the L bytes of the message.
C11_Preface25ThenLengthThenMessage ==
    (pc = "encoded" /\ buf0 = <<>>)
        => LET L == Len(HeaderEncode(header))
           IN /\ Len(buf) = 25 + 4 + L
              /\ IsPrefixOf(PREFACE, buf)
              /\ GetU32(SubSeq(buf, 26, 29)) = L
              /\ Drop(buf, 29) = HeaderEncode(header)

\* C11 as amended: called on an empty buffer, encode_prefaced leaves exactly
\* the 24 bytes of the preface token, then the length L of the encoded
\* message as 4 big-endian bytes, then exactly the L bytes of the message.
C11_Preface24ThenLengthThenMessage ==
    (pc = "encoded" /\ buf0 = <<>>)
        => LET L == Len(HeaderEncode(header))
           IN /\ Len(PREFACE) = 24
              /\ Len(buf) = 24 + 4 + L
              /\ Take(buf, 24) = PREFACE
              /\ buf[25] * 16777216 + buf[26] * 65536 + buf[27] * 256 + buf[28] = L
              /\ Drop(buf, 28) = HeaderEncode(header)
C11_Witness ==
    /\ pc = "encoded" /\ buf0 = <<>> /\ header = TestHeader
    /\ Len(buf) = 24 + 4 + 24
    /\ SubSeq(buf, 25, 28) = <<0, 0, 0, 24>>

(***************************************************************************)
(* More claims about the connection header, checked under SpecHeader.      *)
(***************************************************************************)
\* C12: a detection ended by the timeout, wherever read_prefaced was waiting,
\* has returned Ok with header absent, reason Timeout, and no error.
C12_TimeoutIsAbsentTimeout ==
    (via = "timeout") => (pc = "done" /\ err = "" /\ header = Absent("Timeout"))
C12_Witness ==
    /\ via = "timeout" /\ pc = "done" /\ header = Absent("Timeout")
    /\ IsPrefixOf(PREFACE, consumed) /\ Len(consumed) > PREFACE_LEN
    /\ msg_len > 0 /\ Len(buf) < msg_len

\* C19: whenever detect reports the header absent (NoPreface or Timeout), the
\* replay prefix is exactly the bytes read from the stream so far.
C19_AbsentKeepsAllBytes ==
    (pc = "done" /\ header.tag = "None") => prefix = consumed

(***************************************************************************)
(* Both detectors, for what they have in common.                           *)
(***************************************************************************)
InitDetect == InitHttp \/ InitHeader

NextDetect ==
    \/ Arrive
    \/ Close
    \/ Fail
    \/ TimerFire
    \/ HttpRead
    \/ HttpEof
    \/ HttpReadErr
    \/ HttpTimeout
    \/ HdrPrefaceRead
    \/ HdrBodyRead
    \/ HdrPrefaceEof
    \/ HdrBodyEof
    \/ HdrReadErr
    \/ HdrTimeout

SpecDetect == InitDetect /\ [][NextDetect]_vars

\* C15: a detector takes the timeout outcome only in a step that starts with
\* the read not ready; with the read and the timer both ready it is the read
\* that is taken.
C15_ReadPreferredOverTimeout ==
    [][(via' = "timeout" /\ via # "timeout") => ~ReadReady]_vars
C15_Witness ==
    /\ elapsed /\ pc = "done" /\ via = "read"
    /\ kind = "Http1" /\ prefix = HTTP11_LINE

(***************************************************************************)
(* More claims about DetectHttp, checked under SpecHttp.                   *)
(***************************************************************************)
\* C16: when an iteration's scan has ended without a return, every adjacent
\* "\r\n" of the buffer, also one read in two parts, has been compared by the
\* scan of that iteration or of an earlier one.
C16_NoLineEndSkipped ==
    (pc \in {"reading", "panic"})
        => \A j \in 0..(Len(buf) - 2) :
              (buf[j + 1] = CR /\ buf[j + 2] = LF) => j \in scanned

\* C17, as what a finite run shows of it: once the timeout has elapsed and the
\* buffer holds capacity bytes, no read leaves the detection reading on (so a
\* peer that always has bytes ready cannot keep it in the loop).
C17_ReadingEndsAtTimeoutAndCapacity ==
    [][(pc = "reading" /\ elapsed /\ Len(buf) >= capacity /\ consumed' # consumed)
          => pc' # "reading"]_vars

\* C18: nothing panics, and after every iteration that read bytes the cursor
\* is an index of the buffer.
C18_CursorIsValidIndex ==
    /\ pc # "panic"
    /\ (pc = "reading" /\ nreads > 0) => (0 <= i /\ i < Len(buf))

(***************************************************************************)
(* Resolve::call and resolution (linkerd/proxy/api-resolve/src/resolve.rs) *)
(* The response stream delivers items: Ok(api::Update) with one of the     *)
(* variants Add, Remove, NoEndpoints or none, or Err(grpc::Status).        *)
(***************************************************************************)
\* Longest response stream.
MaxInbound == 3

None == [some |-> FALSE, v |-> <<>>]
Some(x) == [some |-> TRUE, v |-> x]

\* api::net::TcpAddress { ip, port } and api::WeightedAddr { addr, .. }
TcpAddress(ip, port) == [ip |-> ip, port |-> port]
WeightedAddr(a) == [addr |-> a]

\* pb::to_sock_addr: no socket address for a TcpAddress without an ip
to_sock_addr(a) ==
    IF ~a.ip.some THEN None ELSE Some(<<a.ip.v, a.port % 65536>>)

\* pb::to_addr_meta: the socket address with the metadata built from the
\* labels of the set, none when the address is missing or has no ip
to_addr_meta(wa, metric_labels) ==
    IF ~wa.addr.some THEN None
    ELSE LET sa == to_sock_addr(wa.addr.v)
         IN IF ~sa.some THEN None ELSE Some(<<sa.v, [labels |-> metric_labels]>>)

\* addrs.into_iter().filter_map(|addr| pb::to_addr_meta(addr, &metric_labels)).collect()
RECURSIVE AddrMetas(_, _)
AddrMetas(addrs, metric_labels) ==
    IF addrs = <<>> THEN <<>>
    ELSE LET m == to_addr_meta(Head(addrs), metric_labels)
         IN (IF m.some THEN <<m.v>> ELSE <<>>) \o AddrMetas(Tail(addrs), metric_labels)

\* addrs.into_iter().filter_map(pb::to_sock_addr).collect()
RECURSIVE SockAddrs(_)
SockAddrs(addrs) ==
    IF addrs = <<>> THEN <<>>
    ELSE LET m == to_sock_addr(Head(addrs))
         IN (IF m.some THEN <<m.v>> ELSE <<>>) \o SockAddrs(Tail(addrs))

\* resolve::Update<Metadata>, and the error item a stream of Result yields
UpdateAdd(addr_metas) == [tag |-> "Add", addrs |-> addr_metas]
UpdateRemove(sock_addrs) == [tag |-> "Remove", addrs |-> sock_addrs]
UpdateReset(addr_metas) == [tag |-> "Reset", addrs |-> addr_metas]
UpdateDoesNotExist == [tag |-> "DoesNotExist", addrs |-> <<>>]
ErrItem == [tag |-> "Err", addrs |-> <<>>]

\* The arms of match update?.update: the updates the arm yields, in order.
OnAddAlways(m) == <<UpdateAdd(AddrMetas(m.addrs, m.metric_labels))>>
OnAdd(m) ==
    LET addr_metas == AddrMetas(m.addrs, m.metric_labels)
    IN IF addr_metas # <<>> THEN <<UpdateAdd(addr_metas)>> ELSE <<>>

OnRemove(m) ==
    LET sock_addrs == SockAddrs(m.addrs)
    IN IF sock_addrs # <<>> THEN <<UpdateRemove(sock_addrs)>> ELSE <<>>

OnNoEndpointsSwapped(m) ==
    <<IF m.exists THEN UpdateDoesNotExist ELSE UpdateReset(<<>>)>>
OnNoEndpoints(m) ==
    <<IF m.exists THEN UpdateReset(<<>>) ELSE UpdateDoesNotExist>>

\* one pass of while let Some(update) = stream.next().await { match update?.update {..} }
Yielded(item) ==
    IF item.tag = "Err" THEN <<ErrItem>>
    ELSE IF item.tag = "Add" THEN OnAdd(item)
    ELSE IF item.tag = "Remove" THEN OnRemove(item)
    ELSE IF item.tag = "NoEndpoints" THEN OnNoEndpoints(item)
    ELSE <<>>

\* update?: an Err item is yielded and the stream ends with it
PcAfterContinue(item) == "streaming"
PcAfter(item) == IF item.tag = "Err" THEN "ended" ELSE "streaming"

\* Resolve::call: one Get request; the stream is returned once the server has
\* responded, a failed response is the error of the call.
ResolveCall ==
    /\ pc = "call"
    /\ rpcs' = rpcs + 1
    /\ \E ok \in BOOLEAN :
          /\ pc' = IF ok THEN "streaming" ELSE "error"
          /\ err' = IF ok THEN err ELSE "Status"
    /\ UNCHANGED <<io, consumed, nreads, firstRead, build, buf, cap, off, i,
                   maybe_h2, msg_len, rem, via, kind, header, prefix, scanned,
                   buf0, inbound, polled, updates, origins>>

\* stream.next() returns Some(item): one pass of the loop
ResolutionItem ==
    /\ pc = "streaming"
    /\ polled < Len(inbound)
    /\ LET item == inbound[polled + 1]
           ys == Yielded(item)
       IN /\ polled' = polled + 1
          /\ updates' = updates \o ys
          /\ origins' = origins \o [k \in 1..Len(ys) |-> polled + 1]
          /\ pc' = PcAfter(item)
    /\ UNCHANGED <<io, consumed, nreads, firstRead, build, buf, cap, off, i,
                   maybe_h2, msg_len, rem, via, kind, header, err, prefix,
                   scanned, buf0, inbound, rpcs>>

\* stream.next() returns None: the loop and the update stream end
ResolutionEnd ==
    /\ pc = "streaming"
    /\ polled = Len(inbound)
    /\ pc' = "ended"
    /\ UNCHANGED <<io, consumed, nreads, firstRead, build, buf, cap, off, i,
                   maybe_h2, msg_len, rem, via, kind, header, err, prefix,
                   scanned, buf0, resolver>>

(***************************************************************************)
(* The response streams resolution is run on.                              *)
(***************************************************************************)
AddrA == TcpAddress(Some(1), 80)
AddrB == TcpAddress(None, 80)
AddrC == TcpAddress(Some(2), 8080)

ApiAdd(addrs) == [tag |-> "Add", addrs |-> addrs, metric_labels |-> "l", exists |-> FALSE]
ApiRemove(addrs) == [tag |-> "Remove", addrs |-> addrs, metric_labels |-> "", exists |-> FALSE]
ApiNoEndpoints(exists) == [tag |-> "NoEndpoints", addrs |-> <<>>, metric_labels |-> "", exists |-> exists]
ApiNone == [tag |-> "None", addrs |-> <<>>, metric_labels |-> "", exists |-> FALSE]
ApiErr == [tag |-> "Err", addrs |-> <<>>, metric_labels |-> "", exists |-> FALSE]

InboundItems ==
    { ApiAdd(<<WeightedAddr(Some(AddrA)), WeightedAddr(Some(AddrB))>>),
      ApiAdd(<<WeightedAddr(Some(AddrB)), WeightedAddr(None)>>),
      ApiAdd(<<WeightedAddr(Some(AddrC)), WeightedAddr(Some(AddrA))>>),
      ApiRemove(<<AddrA>>),
      ApiRemove(<<AddrB>>),
      ApiRemove(<<AddrB, AddrC, AddrA>>),
      ApiNoEndpoints(TRUE),
      ApiNoEndpoints(FALSE),
      ApiNone,
      ApiErr }

InitResolve ==
    /\ inbound \in SeqsUpTo(InboundItems, MaxInbound)
    /\ polled = 0
    /\ updates = <<>>
    /\ origins = <<>>
    /\ rpcs = 0
    /\ pc = "call"
    /\ err = ""
    /\ wire = <<>>
    /\ avail = 0
    /\ closed = FALSE
    /\ failed = FALSE
    /\ elapsed = FALSE
    /\ consumed = <<>>
    /\ nreads = 0
    /\ firstRead = 0
    /\ build = "any"
    /\ buf = <<>>
    /\ cap = 0
    /\ off = 0
    /\ i = 0
    /\ maybe_h2 = TRUE
    /\ msg_len = 0
    /\ rem = -1
    /\ via = ""
    /\ kind = "unset"
    /\ header = Unset
    /\ prefix = <<>>
    /\ scanned = {}
    /\ buf0 = <<>>

NextResolve ==
    \/ ResolveCall
    \/ ResolutionItem
    \/ ResolutionEnd

SpecResolve == InitResolve /\ [][NextResolve]_vars

(***************************************************************************)
(* Claims about resolution, checked under SpecResolve.                     *)
(***************************************************************************)
\* the positions in updates of the items that came from inbound item k
UpdatesFrom(k) == {n \in 1..Len(updates) : origins[n] = k}

\* C13: every message polled has given zero or one update: an Add one Add of
\* exactly its valid addresses, in order, or nothing when it has none; a
\* Remove likewise; NoEndpoints exactly one Reset of no address when exists
\* and exactly one DoesNotExist when not; a message without a variant nothing,
\* and the stream goes on after it.
C13_OneMessageZeroOrOneUpdate ==
    \A k \in 1..polled :
        LET m == inbound[k]
            U == UpdatesFrom(k)
            ValidW(wa) == to_addr_meta(wa, m.metric_labels).some
            ValidA(a) == to_sock_addr(a).some
            vw == SelectSeq(m.addrs, ValidW)
            va == SelectSeq(m.addrs, ValidA)
            metas == [n \in 1..Len(vw) |-> to_addr_meta(vw[n], m.metric_labels).v]
            socks == [n \in 1..Len(va) |-> to_sock_addr(va[n]).v]
        IN /\ Cardinality(U) <= 1
           /\ m.tag = "Add" =>
                 IF Len(vw) > 0
                 THEN U # {} /\ \A n \in U : updates[n] = UpdateAdd(metas)
                 ELSE U = {}
           /\ m.tag = "Remove" =>
                 IF Len(va) > 0
                 THEN U # {} /\ \A n \in U : updates[n] = UpdateRemove(socks)
                 ELSE U = {}
           /\ (m.tag = "NoEndpoints" /\ m.exists) =>
                 (U # {} /\ \A n \in U : updates[n] = UpdateReset(<<>>))
           /\ (m.tag = "NoEndpoints" /\ ~m.exists) =>
                 (U # {} /\ \A n \in U : updates[n] = UpdateDoesNotExist)
           /\ m.tag = "None" =>
                 /\ U = {}
                 /\ (k = polled /\ pc = "ended") => polled = Len(inbound)
C13_Witness ==
    /\ Len(inbound) = 3 /\ polled = 3
    /\ inbound[1] = ApiAdd(<<WeightedAddr(Some(AddrA)), WeightedAddr(Some(AddrB))>>)
    /\ inbound[2] = ApiRemove(<<AddrB>>)
    /\ inbound[3] = ApiNone
    /\ updates = <<UpdateAdd(<< <<(<<1, 80>>), [labels |-> "l"]>> >>)>>

\* C14: an Err item of the response stream is yielded as the last item of the
\* update stream, which ends with it whatever the response stream still
\* holds; the request is issued once; a response stream that ends without an
\* Err item ends the update stream with no error item in it.
C14_ErrorIsFinalItem ==
    LET errs == {k \in 1..polled : inbound[k].tag = "Err"}
        last == Len(updates)
    IN /\ rpcs <= 1
       /\ \A n \in 1..last : updates[n].tag = "Err" => (n = last /\ pc = "ended")
       /\ \A k \in errs :
             /\ k = polled /\ pc = "ended"
             /\ last > 0 /\ updates[last] = ErrItem /\ origins[last] = k
       /\ (pc = "ended" /\ errs = {}) =>
             /\ polled = Len(inbound)
             /\ \A n \in 1..last : updates[n].tag # "Err"
C14_Witness ==
    /\ pc = "ended" /\ rpcs = 1
    /\ Len(inbound) = 3 /\ polled = 2
    /\ inbound[3] = ApiNoEndpoints(TRUE)
    /\ Len(updates) = 2 /\ updates[1].tag = "Remove" /\ updates[2] = ErrItem

\* C20: the updates come in the order of the messages they come from, no two
\* from one message, each of the variant of its message; an Add or a Remove
\* lists at least one address and a Reset none.
C20_WireOrderAndShape ==
    /\ Len(origins) = Len(updates)
    /\ \A a, b \in 1..Len(updates) : a < b => origins[a] < origins[b]
    /\ \A n \in 1..Len(updates) :
          /\ origins[n] \in 1..polled
          /\ updates[n].tag \in {"Add", "Remove"} =>
                (updates[n].addrs # <<>> /\ inbound[origins[n]].tag = updates[n].tag)
          /\ updates[n].tag \in {"Reset", "DoesNotExist"} =>
                (updates[n].addrs = <<>> /\ inbound[origins[n]].tag = "NoEndpoints")
C20_Witness ==
    /\ polled = 3 /\ Len(updates) = 3
    /\ updates[1].tag = "Add" /\ Len(updates[1].addrs) = 2
    /\ updates[2] = UpdateReset(<<>>)
    /\ updates[3].tag = "Remove" /\ Len(updates[3].addrs) = 2

====
